---- MODULE Spec2Model ----
(***************************************************************************)
(* The recovery session engine of recovery.c: get_args (command            *)
(* resolution and write-back into the bootloader control block),           *)
(* finish_recovery (finalization), and the control flow of main and        *)
(* prompt_and_wait, under power loss at any step.                          *)
(*                                                                         *)
(* C strings are sequences of characters; a character is a one-character   *)
(* TLA+ string, "\n" and "\r" are the line terminators, XFF is the byte    *)
(* 0xFF of erased flash.  A stored field holds the bytes before its first  *)
(* NUL.                                                                    *)
(***************************************************************************)
EXTENDS Integers, Sequences, FiniteSets, TLC

\* ------------------------------------------------------------ constants

\* recovery.c:120, scaled down from 4096: fgets reads at most
\* MAX_ARG_LENGTH - 1 characters of a command file line.
MAX_ARG_LENGTH == 24
\* recovery.c:121, scaled down from 100: argv holds the placeholder and at
\* most MAX_ARGS - 1 arguments.
MAX_ARGS == 4
\* sizeof(boot.recovery): the capacity of the recovery field of struct
\* bootloader_message (bootloader.h), scaled down; a stored string has at
\* most RECOVERY_SIZE - 1 characters.
RECOVERY_SIZE == 48

NL == "\n"
CR == "\r"
XFF == "0xFF"

S_recovery == <<"r","e","c","o","v","e","r","y">>
S_boot_recovery == <<"b","o","o","t","-","r","e","c","o","v","e","r","y">>
O_send_intent == <<"s","e","n","d","_","i","n","t","e","n","t">>
O_update_package == <<"u","p","d","a","t","e","_","p","a","c","k","a","g","e">>
O_wipe_data == <<"w","i","p","e","_","d","a","t","a">>
O_wipe_cache == <<"w","i","p","e","_","c","a","c","h","e">>
DashDash == <<"-","-">>
S_wipe_data == DashDash \o O_wipe_data
S_wipe_cache == DashDash \o O_wipe_cache
S_ok == <<"o","k">>
S_pkg == <<"A",":","z">>
S_send_intent_ok == DashDash \o O_send_intent \o <<"=">> \o S_ok
S_update_package_pkg == DashDash \o O_update_package \o <<"=">> \o S_pkg
\* argv[0] as init starts the program
S_bogus == DashDash \o <<"b","o","g","u","s">>
S_prog == <<"/","s","b","i","n","/","r","e","c","o","v","e","r","y">>

Min(a, b) == IF a < b THEN a ELSE b

\* ------------------------------------------------------- libc on strings

\* strspn: the characters of s before its first character outside delims
RECURSIVE SkipDelims(_, _)
SkipDelims(s, delims) ==
    IF s # <<>> /\ Head(s) \in delims THEN SkipDelims(Tail(s), delims) ELSE s

\* strcspn: the length of the prefix of s holding no character of delims
RECURSIVE StrCSpn(_, _)
StrCSpn(s, delims) ==
    IF s = <<>> \/ Head(s) \in delims THEN 0 ELSE 1 + StrCSpn(Tail(s), delims)

\* strtok(s, delims), and strtok(NULL, delims) on the rest it left: leading
\* delimiters are skipped, NULL when nothing else is left, else the token up
\* to the next delimiter, which is consumed.
StrTok(s, delims) ==
    LET t == SkipDelims(s, delims)
        n == StrCSpn(t, delims)
    IN  IF t = <<>>
        THEN [null |-> TRUE, tok |-> <<>>, rest |-> <<>>]
        ELSE [null |-> FALSE, tok |-> SubSeq(t, 1, n),
              rest |-> SubSeq(t, n + 2, Len(t))]

\* strlcpy(dst, src, size): dst becomes src cut to size - 1 characters
StrLCpy(src, size) == SubSeq(src, 1, Min(Len(src), size - 1))

\* a strlcat that fills all size characters of dst
StrLCatFull(dst, src, size) ==
    IF Len(dst) >= size THEN dst
    ELSE dst \o SubSeq(src, 1, Min(Len(src), size - Len(dst)))

\* strlcat(dst, src, size): src is appended as far as size - 1 characters
\* in all allow
StrLCat(dst, src, size) ==
    IF Len(dst) >= size - 1 THEN dst
    ELSE dst \o SubSeq(src, 1, Min(Len(src), size - 1 - Len(dst)))

\* fgets(buf, size, fp) on the unread part of a stream: NULL at end of file,
\* else at most size - 1 characters, stopping after a newline.
FGets(stream, size) ==
    LET n == Min(Min(StrCSpn(stream, {NL}) + 1, Len(stream)), size - 1)
    IN  IF stream = <<>>
        THEN [null |-> TRUE, buf |-> <<>>, rest |-> <<>>]
        ELSE [null |-> FALSE, buf |-> SubSeq(stream, 1, n),
              rest |-> SubSeq(stream, n + 1, Len(stream))]

\* --------------------------------------------------------------- get_args

\* struct bootloader_message after memset(&boot, 0, sizeof(boot))
ZeroBoot == [command |-> <<>>, status |-> <<>>, recovery |-> <<>>]

\* boot.recovery[sizeof(boot.recovery) - 1] = '\0'
Terminated(field) == SubSeq(field, 1, Min(Len(field), RECOVERY_SIZE - 1))

\* a test that takes erased flash for content
PresentNonZero(field) == field # <<>>

\* field[0] != 0 && field[0] != 255
Present(field) == field # <<>> /\ Head(field) # XFF

\* the record loop stopping one argument early
RECURSIVE BootArgsShort(_, _)
BootArgsShort(rest, argc) ==
    IF argc + 1 >= MAX_ARGS THEN <<>>
    ELSE LET t == StrTok(rest, {NL})
         IN  IF t.null THEN <<>>
             ELSE <<t.tok>> \o BootArgsShort(t.rest, argc + 1)

\* the loop of get_args over strtok(NULL, "\n"), from *argc = argc
RECURSIVE BootArgs(_, _)
BootArgs(rest, argc) ==
    IF argc >= MAX_ARGS THEN <<>>
    ELSE LET t == StrTok(rest, {NL})
         IN  IF t.null THEN <<>>
             ELSE <<t.tok>> \o BootArgs(t.rest, argc + 1)

\* a read loop without the argument count bound
RECURSIVE FileArgsUnbounded(_, _)
FileArgsUnbounded(stream, argc) ==
    LET g == FGets(stream, MAX_ARG_LENGTH)
        t == StrTok(g.buf, {CR, NL})
    IN  IF g.null THEN {[fault |-> FALSE, args |-> <<>>]}
        ELSE {[fault |-> r.fault,
               args |-> <<(IF t.null THEN <<>> ELSE t.tok)>> \o r.args] :
                 r \in FileArgsUnbounded(g.rest, argc + 1)}

\* the loop of get_args over fgets on the command file, from *argc = argc:
\* the set of outcomes.  strtok returns NULL on a line holding only "\r"
\* and "\n"; strdup(NULL) is undefined: the process faults, or the build
\* yields an empty argument.
RECURSIVE FileArgs(_, _)
FileArgs(stream, argc) ==
    IF argc >= MAX_ARGS THEN {[fault |-> FALSE, args |-> <<>>]}
    ELSE LET g == FGets(stream, MAX_ARG_LENGTH)
             t == StrTok(g.buf, {CR, NL})
         IN  IF g.null THEN {[fault |-> FALSE, args |-> <<>>]}
             ELSE IF t.null
             THEN {[fault |-> TRUE, args |-> <<>>]} \cup
                  {[fault |-> r.fault, args |-> <<(<<>>)>> \o r.args] :
                      r \in FileArgs(g.rest, argc + 1)}
             ELSE {[fault |-> r.fault, args |-> <<t.tok>> \o r.args] :
                      r \in FileArgs(g.rest, argc + 1)}

\* a write-back that leaves out the "\n" after each argument
RECURSIVE CatArgsNoSep(_, _)
CatArgsNoSep(field, args) ==
    IF args = <<>> THEN field
    ELSE CatArgsNoSep(StrLCat(field, Head(args), RECOVERY_SIZE), Tail(args))

\* the write-back of get_args: strlcpy of "recovery\n", then strlcat of each
\* argument and of "\n"
RECURSIVE CatArgs(_, _)
CatArgs(field, args) ==
    IF args = <<>> THEN field
    ELSE CatArgs(StrLCat(StrLCat(field, Head(args), RECOVERY_SIZE),
                         <<NL>>, RECOVERY_SIZE),
                 Tail(args))

Serialize(argv) ==
    CatArgs(StrLCpy(S_recovery \o <<NL>>, RECOVERY_SIZE), Tail(argv))

\* a record branch that takes any first line for the marker
RecordArgvAnyFirst(field) ==
    LET first == StrTok(Terminated(field), {NL})
    IN  IF ~first.null
        THEN [match |-> TRUE, argv |-> <<first.tok>> \o BootArgs(first.rest, 1)]
        ELSE [match |-> FALSE, argv |-> <<>>]

\* a record branch whose loop starts at *argc = 0
RecordArgvFromZero(field) ==
    LET first == StrTok(Terminated(field), {NL})
    IN  IF ~first.null /\ first.tok = S_recovery
        THEN [match |-> TRUE, argv |-> <<first.tok>> \o BootArgs(first.rest, 0)]
        ELSE [match |-> FALSE, argv |-> <<>>]

\* the record branch of get_args on the recovery field: the argv it builds
\* when the first token is "recovery" (the token itself becomes argv[0]),
\* else no match
RecordArgv(field) ==
    LET first == StrTok(Terminated(field), {NL})
    IN  IF ~first.null /\ first.tok = S_recovery
        THEN [match |-> TRUE, argv |-> <<first.tok>> \o BootArgs(first.rest, 1)]
        ELSE [match |-> FALSE, argv |-> <<>>]

\* a test that takes one argument for none
NoArgsOffByOne(argv) == Len(argv) <= 2

\* if (*argc <= 1): no argument was supplied yet
NoArgs(argv) == Len(argv) <= 1

\* a get_args that hands back a record with the status field emptied
GetArgsZeroStatus(argv, boot, opened, stream) ==
    LET rec    == RecordArgv(boot.recovery)
        useBcb == NoArgs(argv) /\ rec.match
        argv1  == IF useBcb THEN rec.argv ELSE argv
        useFile == NoArgs(argv1) /\ opened
        files  == IF useFile THEN FileArgs(stream, 1)
                  ELSE {[fault |-> FALSE, args |-> Tail(argv1)]}
    IN  { [fault   |-> f.fault,
           argv    |-> <<Head(argv1)>> \o f.args,
           boot    |-> [command  |-> S_boot_recovery,
                        status   |-> <<>>,
                        recovery |-> Serialize(<<Head(argv1)>> \o f.args)],
           source  |-> IF ~NoArgs(argv) THEN "argv"
                       ELSE IF ~NoArgs(argv1) THEN "bcb"
                       ELSE IF useFile THEN "file" ELSE "none",
           fopened |-> useFile,
           badmsg  |-> /\ NoArgs(argv) /\ ~rec.match
                       /\ Present(Terminated(boot.recovery))] : f \in files }

\* get_args(&argc, &argv) on the invocation arguments argv, the record boot
\* as get_bootloader_message left it, and the command file as
\* fopen_root_path found it (opened = FALSE: NULL).  The set of outcomes:
\* argv is the Command, boot the record handed to set_bootloader_message,
\* source the branch that supplied the arguments, fopened whether the
\* command file was opened, badmsg whether "Bad boot message" was logged.
GetArgs(argv, boot, opened, stream) ==
    LET rec    == RecordArgv(boot.recovery)
        useBcb == NoArgs(argv) /\ rec.match
        argv1  == IF useBcb THEN rec.argv ELSE argv
        useFile == NoArgs(argv1) /\ opened
        files  == IF useFile THEN FileArgs(stream, 1)
                  ELSE {[fault |-> FALSE, args |-> Tail(argv1)]}
    IN  { [fault   |-> f.fault,
           argv    |-> <<Head(argv1)>> \o f.args,
           boot    |-> [command  |-> S_boot_recovery,
                        status   |-> boot.status,
                        recovery |-> Serialize(<<Head(argv1)>> \o f.args)],
           source  |-> IF ~NoArgs(argv) THEN "argv"
                       ELSE IF ~NoArgs(argv1) THEN "bcb"
                       ELSE IF useFile THEN "file" ELSE "none",
           fopened |-> useFile,
           badmsg  |-> /\ NoArgs(argv) /\ ~rec.match
                       /\ Present(Terminated(boot.recovery))] : f \in files }

\* ------------------------------------------------------ main: the options

\* a char * that may be NULL
NullStr == [null |-> TRUE, s |-> <<>>]
StrPtr(s) == [null |-> FALSE, s |-> s]

\* static const struct option OPTIONS[]
OPTIONS ==
    << [name |-> O_send_intent,    has_arg |-> TRUE,  val |-> "s"],
       [name |-> O_update_package, has_arg |-> TRUE,  val |-> "u"],
       [name |-> O_wipe_data,      has_arg |-> FALSE, val |-> "w"],
       [name |-> O_wipe_cache,     has_arg |-> FALSE, val |-> "c"] >>

\* send_intent = NULL, update_package = NULL, wipe_data = 0, wipe_cache = 0
NoOpts == [send_intent |-> NullStr, update_package |-> NullStr,
           wipe_data |-> FALSE, wipe_cache |-> FALSE]

IsPrefix(p, s) == Len(p) <= Len(s) /\ SubSeq(s, 1, Len(p)) = p

\* a switch whose case 'c' sets wipe_data as well
SwitchCacheBoth(o, val, optarg) ==
    CASE val = "s" -> [o EXCEPT !.send_intent = StrPtr(optarg)]
      [] val = "u" -> [o EXCEPT !.update_package = StrPtr(optarg)]
      [] val = "w" -> [o EXCEPT !.wipe_data = TRUE, !.wipe_cache = TRUE]
      [] val = "c" -> [o EXCEPT !.wipe_data = TRUE, !.wipe_cache = TRUE]
      [] OTHER     -> o

\* a switch whose case 'w' leaves wipe_cache alone
SwitchDataOnly(o, val, optarg) ==
    CASE val = "s" -> [o EXCEPT !.send_intent = StrPtr(optarg)]
      [] val = "u" -> [o EXCEPT !.update_package = StrPtr(optarg)]
      [] val = "w" -> [o EXCEPT !.wipe_data = TRUE]
      [] val = "c" -> [o EXCEPT !.wipe_cache = TRUE]
      [] OTHER     -> o

\* the switch of main on what getopt_long returned
Switch(o, val, optarg) ==
    CASE val = "s" -> [o EXCEPT !.send_intent = StrPtr(optarg)]
      [] val = "u" -> [o EXCEPT !.update_package = StrPtr(optarg)]
      [] val = "w" -> [o EXCEPT !.wipe_data = TRUE, !.wipe_cache = TRUE]
      [] val = "c" -> [o EXCEPT !.wipe_cache = TRUE]
      [] OTHER     -> o

\* the loop of main over getopt_long(argc, argv, "", OPTIONS, NULL) on the
\* arguments after the placeholder: the set of outcomes.  An element
\* without the "--" prefix is no long option and changes nothing; "--"
\* ends the options; a name is looked up exactly, then as a unique prefix;
\* a value follows "=" or is the next element.  OPTIONS has no
\* terminating entry, so a name that matches no entry exactly makes
\* getopt_long read past the array: the process faults, or the lookup ends
\* as if the array were terminated.
RECURSIVE GetOpts(_, _)
GetOpts(args, o) ==
    IF args = <<>> \/ Head(args) = DashDash
    THEN {[fault |-> FALSE, opts |-> o]}
    ELSE IF ~IsPrefix(DashDash, Head(args)) THEN GetOpts(Tail(args), o)
    ELSE
    LET body  == SubSeq(Head(args), 3, Len(Head(args)))
        n     == StrCSpn(body, {"="})
        name  == SubSeq(body, 1, n)
        hasEq == n < Len(body)
        value == SubSeq(body, n + 2, Len(body))
        exact == {i \in DOMAIN OPTIONS : OPTIONS[i].name = name}
        pref  == {i \in DOMAIN OPTIONS : IsPrefix(name, OPTIONS[i].name)}
        hit   == IF exact # {} THEN exact
                 ELSE IF Cardinality(pref) = 1 THEN pref ELSE {}
        opt   == OPTIONS[CHOOSE i \in hit : TRUE]
        ended ==
            IF hit = {} THEN GetOpts(Tail(args), Switch(o, "?", <<>>))
            ELSE IF opt.has_arg /\ hasEq
            THEN GetOpts(Tail(args), Switch(o, opt.val, value))
            ELSE IF opt.has_arg /\ Len(args) >= 2
            THEN GetOpts(Tail(Tail(args)), Switch(o, opt.val, args[2]))
            ELSE IF opt.has_arg \/ hasEq
            THEN GetOpts(Tail(args), Switch(o, "?", <<>>))
            ELSE GetOpts(Tail(args), Switch(o, opt.val, <<>>))
    IN  IF exact # {} THEN ended
        ELSE {[fault |-> TRUE, opts |-> o]} \cup ended

ParseOptions(argv) == GetOpts(Tail(argv), NoOpts)

\* ------------------------------------------------------------- the state

\* bounds of the model
MaxBoots == 2
MaxMenuOps == 1

VARIABLES
    bcb,            \* the bootloader control block on the misc partition
    cmdfile,        \* CACHE:recovery/command
    intentfile,     \* CACHE:recovery/intent
    logfile,        \* CACHE:recovery/log: the chunks this process appended
                    \* (what earlier processes left is not tracked)
    dataFmt,        \* DATA: has been formatted
    cacheFmt,       \* CACHE: has been formatted
    miscOk,         \* get/set_bootloader_message succeed
    cacheOk,        \* ensure_root_path_mounted("CACHE:...") succeeds
    unlinkOk,       \* unlink of an existing command file succeeds
    pc,             \* the position of the process in main
    argv,           \* argc, argv of main
    opts,           \* send_intent, update_package, wipe_data, wipe_cache
    status,         \* status of main
    tmplog,         \* /tmp/recovery.log: the number of chunks written
    tmplog_offset,  \* static long tmplog_offset of finish_recovery
    finIntent,      \* the argument of the running finish_recovery call
    finRet,         \* where the running finish_recovery call returns to
    boots,          \* recovery sessions started
    menuOps,        \* menu operations run by prompt_and_wait
    sess,           \* history of the session
    run             \* history of the run

disk == <<bcb, cmdfile, intentfile, logfile, dataFmt, cacheFmt>>
env  == <<miscOk, cacheOk, unlinkOk>>
proc == <<pc, argv, opts, status, tmplog, tmplog_offset, finIntent, finRet>>
vars == <<disk, env, proc, boots, menuOps, sess, run>>

NoFile == [exists |-> FALSE, data |-> <<>>]
File(s) == [exists |-> TRUE, data |-> s]

\* what the four finish_recovery outputs hold
Outputs == [bcb |-> bcb, cmdfile |-> cmdfile, intentfile |-> intentfile,
            logfile |-> logfile]

\* no step of finish_recovery carried out: each is "none", then "ok",
\* "failed", or for the intent "skipped" (send_intent == NULL); mounted and
\* existed are what the removal step found
NoSteps == [intent |-> "none", log |-> "none", bcb |-> "none",
            unlink |-> "none", mounted |-> FALSE, existed |-> FALSE]

\* choose_wipe_type before its first key: selected = 0, chosen_item = -1,
\* no key at the confirmation, nothing formatted
NoMenu ==
    [selected |-> 0, chosen |-> -1, keys |-> 0, confirm |-> "none",
     fmt |-> <<>>]

\* the history a session starts with
NewSess ==
    [wrote      |-> FALSE,    \* get_args wrote the record
     source     |-> "none",   \* the branch that supplied the Command
     fopened    |-> FALSE,    \* get_args opened the command file
     badmsg     |-> FALSE,    \* get_args logged "Bad boot message"
     input      |-> [argv |-> <<>>, boot |-> ZeroBoot, opened |-> FALSE,
                     stream |-> <<>>],   \* what get_args was called on
     blank      |-> FALSE,    \* get_args found no arguments, an empty
                              \* record and no command file
     triedData  |-> FALSE,    \* erase_root("DATA:") was called
     triedCache |-> FALSE,    \* erase_root("CACHE:") was called
     failedData |-> FALSE,    \* erase_root("DATA:") returned nonzero
     failedCache |-> FALSE,   \* erase_root("CACHE:") returned nonzero
     installed  |-> [null |-> TRUE, s |-> <<>>, ok |-> FALSE],
                              \* install_package was called on s
     prompted   |-> FALSE,    \* main called prompt_and_wait
     finCalls   |-> 0,        \* finish_recovery calls started
     finWrote   |-> FALSE,    \* the last finish_recovery call wrote the record
     cleared    |-> FALSE,    \* a finish_recovery call wrote the record
     fin        |-> NoSteps,  \* the steps of the last finish_recovery call
     track      |-> "none",   \* two finish_recovery(NULL) calls in a row
     menu       |-> NoMenu,   \* the locals of choose_wipe_type
     snap       |-> [out |-> [bcb |-> ZeroBoot, cmdfile |-> NoFile,
                              intentfile |-> NoFile, logfile |-> <<>>],
                     pending |-> <<>>]]

\* the process as the bootloader starts it: no invocation arguments
FreshProc(args) ==
    /\ pc = "get_args" /\ argv = args /\ opts = NoOpts /\ status = "SUCCESS"
    /\ tmplog = 0 /\ tmplog_offset = 0
    /\ finIntent = NullStr /\ finRet = "reboot"

\* -------------------------------------------------------------- the inputs

Lines(ls) == [i \in 1..Len(ls) |-> ls[i] \o <<NL>>]
RECURSIVE Concat(_)
Concat(ss) == IF ss = <<>> THEN <<>> ELSE Head(ss) \o Concat(Tail(ss))
Text(ls) == Concat(Lines(ls))
Fill(c, n) == [i \in 1..n |-> c]

\* invocation arguments
ArgvIn ==
    { <<S_prog>>,
      <<S_prog, S_wipe_cache>>,
      <<S_prog, S_send_intent_ok, S_update_package_pkg>>,
      <<S_prog, <<>>, S_wipe_data>>,
      <<S_prog, S_wipe_data, S_wipe_cache, S_update_package_pkg \o Fill("z", 3)>> }

\* records on the misc partition
BcbIn ==
    { ZeroBoot,
      [command |-> Fill(XFF, 4), status |-> Fill(XFF, 4),
       recovery |-> Fill(XFF, RECOVERY_SIZE)],
      [command |-> S_boot_recovery, status |-> <<>>,
       recovery |-> Text(<<S_recovery, S_wipe_data>>)],
      [command |-> S_boot_recovery, status |-> S_ok,
       recovery |-> Text(<<S_recovery>>)],
      [command |-> <<>>, status |-> <<>>,
       recovery |-> S_recovery \o <<NL, NL>> \o S_wipe_cache],
      [command |-> S_boot_recovery, status |-> <<>>,
       recovery |-> S_recovery \o <<NL, NL, NL>>],
      [command |-> S_boot_recovery, status |-> <<>>,
       recovery |-> Text(<<S_recovery, <<"a">>, <<"b">>, <<"c">>, <<"d">>>>)],
      [command |-> S_ok, status |-> S_ok,
       recovery |-> Text(<<<<"j","u","n","k">>, S_wipe_data>>)],
      [command |-> <<>>, status |-> <<>>,
       recovery |-> <<NL>> \o Text(<<S_recovery, S_wipe_data>>)] }

\* command files on the cache partition
CmdIn ==
    { NoFile,
      File(Text(<<S_wipe_data>>)),
      File(S_wipe_cache),
      File(Text(<<S_update_package_pkg, S_send_intent_ok>>)),
      File(S_wipe_cache \o <<CR, NL>> \o S_send_intent_ok \o <<CR, NL>>),
      File(<<NL>> \o Text(<<S_wipe_cache>>)),
      File(Text(<<<<"a">>, <<"b">>, <<"c">>, <<"d">>>>)),
      File(Text(<<S_update_package_pkg \o Fill("z", 9), S_wipe_data>>)) }

\* the states a run starts in: recovery has just been started on what the
\* main system and earlier runs left behind
InitWith(argvs, bcbs, cmds, intents, flags) ==
    /\ bcb \in bcbs
    /\ cmdfile \in cmds
    /\ intentfile \in intents
    /\ logfile = <<>>
    /\ dataFmt = FALSE /\ cacheFmt = FALSE
    /\ miscOk \in flags /\ cacheOk \in flags /\ unlinkOk \in flags
    /\ \E a \in argvs : FreshProc(a)
    /\ boots = 1 /\ menuOps = 0
    /\ sess = NewSess
    /\ run = [resume |-> [valid |-> FALSE, cmd |-> <<>>],
              armed |-> FALSE, fmtFailed |-> FALSE, ioFault |-> FALSE]

\* the sessions of the main specification
ArgvMain == { <<S_prog>>, <<S_prog, S_send_intent_ok, S_wipe_cache>> }
BcbMain ==
    { ZeroBoot,
      [command |-> S_boot_recovery, status |-> S_ok,
       recovery |-> Text(<<S_recovery, S_wipe_data>>)] }
CmdMain ==
    { NoFile,
      File(Text(<<S_wipe_data>>)),
      File(Text(<<S_update_package_pkg, S_send_intent_ok>>)),
      File(Text(<<S_send_intent_ok, S_update_package_pkg \o Fill("z", 3)>>)) }

Init == InitWith(ArgvMain, BcbMain, CmdMain, {File(<<"o","l","d">>)}, {TRUE})

\* ------------------------------------------------- the record and the files

\* get_bootloader_message(&boot) into a zeroed boot: "this may fail, leaving
\* a zeroed structure"
GetBootloaderMessage(stored, ok) == IF ok THEN stored ELSE ZeroBoot

\* a failed write that leaves the command field written and the rest empty
SetBootloaderMessageTorn(stored, boot, ok) ==
    IF ok THEN boot ELSE [boot EXCEPT !.recovery = <<>>, !.status = <<>>]

\* a set_bootloader_message that writes nothing
SetBootloaderMessageLost(stored, boot, ok) == stored

\* set_bootloader_message(&boot): the record as a whole, or nothing
SetBootloaderMessage(stored, boot, ok) == IF ok THEN boot ELSE stored

\* the bootloader starts recovery again while the record asks for it
\* ("after this, rebooting will restart the erase"), else the main system
BootsRecovery == bcb.command = S_boot_recovery

\* the chunks of the temporary log after offset, as finish_recovery copies
\* them: fseek to tmplog_offset, then fgets/fputs to the end
LogCopy(boot, offset, end) == [i \in 1..(end - offset) |-> <<boot, offset + i>>]

\* an offset that is never advanced
KeepOffset(offset, end) == offset

\* tmplog_offset = ftell(tmplog)
NextOffset(offset, end) == end

\* a clear that empties the status field only
ClearedStatus(stored) == [stored EXCEPT !.status = <<>>]

\* a clear of the command field alone
ClearedCommand(stored) == [stored EXCEPT !.command = <<>>]

\* struct bootloader_message boot; memset(&boot, 0, sizeof(boot)) of
\* finish_recovery: nothing of the stored record is kept
ClearedBoot(stored) == ZeroBoot

\* a removal step that takes a file that does not exist for a failure
UnlinkFailedNoEnt == ~cacheOk \/ ~cmdfile.exists \/ ~unlinkOk

\* ensure_root_path_mounted(COMMAND_FILE) != 0 || (unlink(path) && errno !=
\* ENOENT): the removal step failed
UnlinkFailed == ~cacheOk \/ (cmdfile.exists /\ ~unlinkOk)

\* ---------------------------------------------------------------- sessions

PreFinish == {"parse", "exec", "wipe_cache", "executed"}

\* a session starts: a fresh process, /tmp empty
StartSession ==
    /\ pc' = "get_args" /\ argv' = <<S_prog>> /\ opts' = NoOpts
    /\ status' = "SUCCESS" /\ tmplog' = 0 /\ tmplog_offset' = 0
    /\ finIntent' = NullStr /\ finRet' = "reboot"
    /\ boots' = boots + 1 /\ menuOps' = 0
    /\ sess' = NewSess
    /\ logfile' = <<>>
    /\ UNCHANGED <<bcb, cmdfile, intentfile, dataFmt, cacheFmt>>

\* the main system starts: the run is over
StartMain ==
    /\ pc' = "main"
    /\ UNCHANGED <<disk, argv, opts, status, tmplog, tmplog_offset, finIntent,
                   finRet, boots, menuOps, sess>>

\* main up to get_args, and get_args
GetArgsStep ==
    /\ pc = "get_args"
    /\ \E readOk \in BOOLEAN :
       LET boot   == GetBootloaderMessage(bcb, readOk)
           opened == cacheOk /\ cmdfile.exists
           input  == [argv |-> argv, boot |-> boot, opened |-> opened,
                      stream |-> cmdfile.data]
       IN  \E o \in GetArgs(argv, boot, opened, cmdfile.data) :
           /\ IF o.fault
              THEN /\ pc' = "crashed_get_args"
                   /\ sess' = [sess EXCEPT !.input = input,
                                           !.source = o.source,
                                           !.fopened = o.fopened,
                                           !.badmsg = o.badmsg]
                   /\ UNCHANGED <<argv, bcb>>
              ELSE /\ pc' = "parse"
                   /\ argv' = o.argv
                   /\ bcb' = SetBootloaderMessage(bcb, o.boot, miscOk)
                   /\ sess' = [sess EXCEPT !.input = input, !.wrote = miscOk,
                                           !.blank = /\ NoArgs(argv)
                                                     /\ boot = ZeroBoot
                                                     /\ ~cmdfile.exists,
                                           !.source = o.source,
                                           !.fopened = o.fopened,
                                           !.badmsg = o.badmsg]
           /\ run' = [run EXCEPT
                        !.armed = @ \/ (~o.fault /\ miscOk),
                        !.ioFault = @ \/ ~readOk \/ ~miscOk \/ ~cacheOk]
    /\ tmplog' = tmplog + 1
    /\ UNCHANGED <<cmdfile, intentfile, logfile, dataFmt, cacheFmt, env, opts,
                   status, tmplog_offset, finIntent, finRet, boots, menuOps>>

\* the getopt_long loop of main
ParseStep ==
    /\ pc = "parse"
    /\ \E o \in ParseOptions(argv) :
       IF o.fault THEN pc' = "crashed_getopt" /\ UNCHANGED opts
       ELSE pc' = "exec" /\ opts' = o.opts
    /\ tmplog' = tmplog + 1
    /\ sess' = [sess EXCEPT !.input = NewSess.input, !.source = "none",
                            !.fopened = FALSE, !.badmsg = FALSE]
    /\ run' = [run EXCEPT !.resume = [valid |-> FALSE, cmd |-> <<>>]]
    /\ UNCHANGED <<disk, env, argv, status, tmplog_offset, finIntent, finRet,
                   boots, menuOps>>

\* a main that looks at the wipe flags before the package
BranchWipeFirst(o) ==
    IF o.wipe_data \/ o.wipe_cache THEN "wipe"
    ELSE IF ~o.update_package.null THEN "install"
    ELSE "none"

\* if (update_package != NULL) ... else if (wipe_data || wipe_cache) ...
\* else ...
Branch(o) ==
    IF ~o.update_package.null THEN "install"
    ELSE IF o.wipe_data \/ o.wipe_cache THEN "wipe"
    ELSE "none"

\* status = install_package(update_package)
Install ==
    /\ pc = "exec" /\ Branch(opts) = "install"
    /\ \E ok \in BOOLEAN :
        /\ status' = IF ok THEN "SUCCESS" ELSE "ERROR"
        /\ sess' = [sess EXCEPT !.installed = [null |-> opts.update_package.null,
                                               s |-> opts.update_package.s,
                                               ok |-> ok]]
    /\ pc' = "executed"
    /\ tmplog' = tmplog + 1
    /\ UNCHANGED <<disk, env, argv, opts, tmplog_offset, finIntent, finRet,
                   boots, menuOps, run>>

\* a wipe branch that gives up after a failed DATA format
AfterDataStop(o, ok) == IF ok /\ o.wipe_cache THEN "wipe_cache" ELSE "executed"

\* after erase_root("DATA:"), whatever it returned: if (wipe_cache && ...)
AfterData(o, ok) == IF o.wipe_cache THEN "wipe_cache" ELSE "executed"

\* if (wipe_data && erase_root("DATA:")) status = INSTALL_ERROR
EraseData ==
    /\ pc = "exec" /\ Branch(opts) = "wipe" /\ opts.wipe_data
    /\ \E ok \in BOOLEAN :
        /\ dataFmt' = (dataFmt \/ ok)
        /\ status' = IF ok THEN status ELSE "ERROR"
        /\ run' = [run EXCEPT !.fmtFailed = @ \/ ~ok]
        /\ pc' = AfterData(opts, ok)
        /\ sess' = [sess EXCEPT !.triedData = TRUE, !.failedData = ~ok]
    /\ UNCHANGED <<bcb, cmdfile, intentfile, logfile, cacheFmt, env, argv,
                   opts, tmplog, tmplog_offset, finIntent, finRet, boots,
                   menuOps>>

\* a wipe branch that formats CACHE first
EraseCacheFirst ==
    /\ pc = "exec" /\ Branch(opts) = "wipe"
    /\ opts.wipe_cache /\ ~sess.triedCache
    /\ \E ok \in BOOLEAN :
        /\ cacheFmt' = (cacheFmt \/ ok)
        /\ cmdfile' = IF ok THEN NoFile ELSE cmdfile
        /\ intentfile' = IF ok THEN NoFile ELSE intentfile
        /\ logfile' = IF ok THEN <<>> ELSE logfile
        /\ status' = IF ok THEN status ELSE "ERROR"
        /\ run' = [run EXCEPT !.fmtFailed = @ \/ ~ok]
        /\ sess' = [sess EXCEPT !.triedCache = TRUE, !.failedCache = ~ok]
    /\ pc' = IF opts.wipe_data THEN "exec" ELSE "executed"
    /\ UNCHANGED <<bcb, dataFmt, env, argv, opts, tmplog, tmplog_offset,
                   finIntent, finRet, boots, menuOps>>

\* if (wipe_cache && erase_root("CACHE:")) status = INSTALL_ERROR; a
\* formatted cache volume holds no file
EraseCache ==
    /\ \/ pc = "wipe_cache"
       \/ pc = "exec" /\ Branch(opts) = "wipe" /\ ~opts.wipe_data
    /\ opts.wipe_cache
    /\ \E ok \in BOOLEAN :
        /\ cacheFmt' = (cacheFmt \/ ok)
        /\ cmdfile' = IF ok THEN NoFile ELSE cmdfile
        /\ intentfile' = IF ok THEN NoFile ELSE intentfile
        /\ logfile' = IF ok THEN <<>> ELSE logfile
        /\ status' = IF ok THEN status ELSE "ERROR"
        /\ run' = [run EXCEPT !.fmtFailed = @ \/ ~ok]
        /\ sess' = [sess EXCEPT !.triedCache = TRUE, !.failedCache = ~ok]
    /\ pc' = "executed"
    /\ UNCHANGED <<bcb, dataFmt, env, argv, opts, tmplog, tmplog_offset,
                   finIntent, finRet, boots, menuOps>>

\* a last branch that leaves the status alone
NoCommandSuccess == "SUCCESS"

\* INSTALL_ERROR of the last branch
NoCommandStatus == "ERROR"

\* status = INSTALL_ERROR;  // No command specified
NoCommand ==
    /\ pc = "exec" /\ Branch(opts) = "none"
    /\ status' = NoCommandStatus
    /\ pc' = "executed"
    /\ UNCHANGED <<disk, env, argv, opts, tmplog, tmplog_offset, finIntent,
                   finRet, boots, menuOps, sess, run>>

\* -------------------------------------------------------- finish_recovery

\* a caller that goes on without the call
CallFinishSkip(intent, ret, inRow) ==
    /\ pc' = ret /\ finIntent' = intent /\ finRet' = ret
    /\ sess' = [sess EXCEPT !.prompted = @ \/ ret = "prompt_wait"]

\* the call finish_recovery(intent) from a caller that continues at ret
CallFinish(intent, ret, inRow) ==
    /\ pc' = "fin_intent" /\ finIntent' = intent /\ finRet' = ret
    /\ sess' = [sess EXCEPT
                  !.prompted = @ \/ ret = "prompt_wait",
                  !.finCalls = @ + 1,
                  !.finWrote = FALSE,
                  !.fin = NoSteps,
                  !.track = IF ~intent.null THEN "none"
                            ELSE IF inRow /\ @ = "between" THEN "second"
                            ELSE "first"]

\* a main that prompts after every session
NeedsPromptAlways(st) == TRUE

\* if (status != INSTALL_SUCCESS) prompt_and_wait()
NeedsPrompt(st) == st # "SUCCESS"

\* if (status != INSTALL_SUCCESS) prompt_and_wait(), which starts with
\* finish_recovery(NULL)
EnterPrompt ==
    /\ pc = "executed" /\ NeedsPrompt(status)
    /\ CallFinish(NullStr, "prompt_wait", TRUE)
    /\ UNCHANGED <<disk, env, argv, opts, status, tmplog, tmplog_offset,
                   boots, menuOps, run>>

\* a main that drops the intent on its final call
ExitFinishNoIntent ==
    /\ \/ pc = "executed" /\ ~NeedsPrompt(status)
       \/ pc = "prompt_wait"
    /\ CallFinish(NullStr, "reboot", TRUE)
    /\ UNCHANGED <<disk, env, argv, opts, status, tmplog, tmplog_offset,
                   boots, menuOps, run>>

\* finish_recovery(send_intent) of main, on the way out
ExitFinish ==
    /\ \/ pc = "executed" /\ ~NeedsPrompt(status)
       \/ pc = "prompt_wait"
    /\ CallFinish(opts.send_intent, "reboot", TRUE)
    /\ UNCHANGED <<disk, env, argv, opts, status, tmplog, tmplog_offset,
                   boots, menuOps, run>>

\* a menu loop without the finish_recovery(NULL) after the item
MenuOpNoFinish ==
    /\ pc = "prompt_wait" /\ menuOps < MaxMenuOps
    /\ menuOps' = menuOps + 1
    /\ tmplog' = tmplog + 1
    /\ UNCHANGED <<disk, env, pc, argv, opts, status, tmplog_offset, finIntent,
                   finRet, boots, sess, run>>

\* prompt_and_wait runs a menu item that returns to the menu, then
\* finish_recovery(NULL) again
MenuOp ==
    /\ pc = "prompt_wait" /\ menuOps < MaxMenuOps
    /\ menuOps' = menuOps + 1
    /\ tmplog' = tmplog + 1
    /\ CallFinish(NullStr, "prompt_wait", FALSE)
    /\ UNCHANGED <<disk, env, argv, opts, status, tmplog_offset, boots, run>>

\* a finish_recovery that returns when the intent file cannot be opened
AfterIntentAbort(failed, ret) == IF failed THEN ret ELSE "fin_log"

\* finish_recovery after the intent step: on to the log, whether the intent
\* file could be opened or not
AfterIntent(failed, ret) == "fin_log"

\* if (send_intent != NULL): fopen_root_path(INTENT_FILE, "w"), fputs
FinIntentStep ==
    /\ pc = "fin_intent"
    /\ intentfile' = IF ~finIntent.null /\ cacheOk THEN File(finIntent.s)
                     ELSE intentfile
    /\ tmplog' = IF ~finIntent.null /\ ~cacheOk THEN tmplog + 1 ELSE tmplog
    /\ pc' = AfterIntent(~finIntent.null /\ ~cacheOk, finRet)
    /\ sess' = [sess EXCEPT !.fin.intent = IF finIntent.null THEN "skipped"
                                           ELSE IF cacheOk THEN "ok"
                                           ELSE "failed"]
    /\ UNCHANGED <<bcb, cmdfile, logfile, dataFmt, cacheFmt, env, argv, opts,
                   status, tmplog_offset, finIntent, finRet, boots, menuOps,
                   run>>

\* fopen_root_path(LOG_FILE, "a"), the copy from tmplog_offset
FinLogStep ==
    /\ pc = "fin_log"
    /\ IF cacheOk
       THEN /\ logfile' = logfile \o LogCopy(boots, tmplog_offset, tmplog)
            /\ tmplog_offset' = NextOffset(tmplog_offset, tmplog)
            /\ UNCHANGED tmplog
       ELSE /\ tmplog' = tmplog + 1
            /\ UNCHANGED <<logfile, tmplog_offset>>
    /\ pc' = "fin_bcb"
    /\ sess' = [sess EXCEPT !.fin.log = IF cacheOk THEN "ok" ELSE "failed"]
    /\ UNCHANGED <<bcb, cmdfile, intentfile, dataFmt, cacheFmt, env, argv,
                   opts, status, finIntent, finRet, boots, menuOps, run>>

\* memset(&boot, 0, sizeof(boot)); set_bootloader_message(&boot)
FinBcbStep ==
    /\ pc = "fin_bcb"
    /\ bcb' = SetBootloaderMessage(bcb, ClearedBoot(bcb), miscOk)
    /\ tmplog' = IF miscOk THEN tmplog ELSE tmplog + 1
    /\ sess' = [sess EXCEPT !.finWrote = miscOk, !.cleared = @ \/ miscOk,
                            !.fin.bcb = IF miscOk THEN "ok" ELSE "failed"]
    /\ run' = [run EXCEPT !.ioFault = @ \/ ~miscOk]
    /\ pc' = "fin_unlink"
    /\ UNCHANGED <<cmdfile, intentfile, logfile, dataFmt, cacheFmt, env, argv,
                   opts, status, tmplog_offset, finIntent, finRet, boots,
                   menuOps>>

\* the removal of the command file, sync, and the return to the caller
FinUnlinkStep ==
    /\ pc = "fin_unlink"
    /\ cmdfile' = IF UnlinkFailed THEN cmdfile ELSE NoFile
    /\ tmplog' = IF UnlinkFailed THEN tmplog + 1 ELSE tmplog
    /\ pc' = finRet
    /\ sess' = [sess EXCEPT
                  !.fin.unlink = IF UnlinkFailed THEN "failed" ELSE "ok",
                  !.fin.mounted = cacheOk,
                  !.fin.existed = cmdfile.exists,
                  !.track = CASE @ = "first" -> "between"
                              [] @ = "second" -> "after2"
                              [] OTHER -> "none",
                  !.snap = IF sess.track = "first"
                           THEN [out |-> [Outputs EXCEPT !.cmdfile = cmdfile'],
                                 pending |-> LogCopy(boots, tmplog_offset,
                                                     tmplog')]
                           ELSE @]
    /\ UNCHANGED <<bcb, intentfile, logfile, dataFmt, cacheFmt, env, argv,
                   opts, status, tmplog_offset, finIntent, finRet, boots,
                   menuOps, run>>

\* ------------------------------------------------- reboot and power loss

\* where a crashed session resumes: the Command the record was written for
Resume ==
    IF pc \in PreFinish /\ sess.wrote
    THEN [valid |-> TRUE, cmd |-> Tail(argv)]
    ELSE IF pc = "get_args" THEN run.resume
    ELSE [valid |-> FALSE, cmd |-> <<>>]

\* reboot(RB_AUTOBOOT) at the end of main
Reboot ==
    /\ pc = "reboot"
    /\ IF BootsRecovery THEN boots < MaxBoots /\ StartSession ELSE StartMain
    /\ run' = [run EXCEPT !.resume = [valid |-> FALSE, cmd |-> <<>>]]
    /\ UNCHANGED env

\* the power is lost while recovery runs, and the device starts again
PowerLoss ==
    /\ pc \notin {"main", "reboot"}
    /\ IF BootsRecovery THEN boots < MaxBoots /\ StartSession ELSE StartMain
    /\ run' = [run EXCEPT !.resume = Resume]
    /\ UNCHANGED env

\* a device starts or stops failing, between two of the calls of main
\* (get_args, the operation, finish_recovery)
EnvChange ==
    /\ pc \in {"get_args", "executed", "prompt_wait"}
    /\ \/ miscOk' = ~miscOk /\ UNCHANGED <<cacheOk, unlinkOk>>
       \/ cacheOk' = ~cacheOk /\ UNCHANGED <<miscOk, unlinkOk>>
       \/ unlinkOk' = ~unlinkOk /\ UNCHANGED <<miscOk, cacheOk>>
    /\ sess' = [sess EXCEPT !.track = "none"]
    /\ UNCHANGED <<disk, proc, boots, menuOps, run>>

Next ==
    \/ GetArgsStep \/ ParseStep
    \/ Install \/ EraseData \/ EraseCache \/ NoCommand
    \/ EnterPrompt \/ ExitFinish \/ MenuOp
    \/ FinIntentStep \/ FinLogStep \/ FinBcbStep \/ FinUnlinkStep
    \/ Reboot \/ PowerLoss \/ EnvChange

Spec == Init /\ [][Next]_vars

\* command resolution on its own, over every combination of the inputs: a
\* session up to its options, and the session after a power loss
InitArgs == InitWith(ArgvIn, BcbIn, CmdIn, {NoFile}, BOOLEAN)
NextArgs == GetArgsStep \/ ParseStep \/ PowerLoss
SpecArgs == InitArgs /\ [][NextArgs]_vars

\* the sessions of main on invocation arguments alone: every branch of the
\* execution, with options main does not know
ArgvExec ==
    { <<S_prog>>,
      <<S_prog, S_wipe_data>>,
      <<S_prog, S_wipe_cache>>,
      <<S_prog, S_update_package_pkg, S_send_intent_ok>>,
      <<S_prog, S_wipe_data, S_update_package_pkg>>,
      <<S_prog, S_bogus, S_wipe_cache, S_send_intent_ok>> }
InitExec == InitWith(ArgvExec, {ZeroBoot}, {NoFile}, {NoFile}, {TRUE})
SpecExec == InitExec /\ [][Next]_vars

\* the factory reset of the header comment: the main system has written
\* "--wipe_data" to the command file and rebooted into recovery.  The
\* process takes its next step as long as it has one (no call blocks for
\* ever, and the user at the prompt ends up choosing reboot); power losses
\* and device failures happen or not.
InitReset ==
    InitWith({<<S_prog>>},
             {ZeroBoot,
              [command |-> Fill(XFF, 4), status |-> Fill(XFF, 4),
               recovery |-> Fill(XFF, RECOVERY_SIZE)]},
             {File(Text(<<S_wipe_data>>))}, {NoFile}, {TRUE})
Step ==
    \/ GetArgsStep \/ ParseStep \/ EraseData \/ EraseCache \/ NoCommand
    \/ EnterPrompt \/ ExitFinish
    \/ FinIntentStep \/ FinLogStep \/ FinBcbStep \/ FinUnlinkStep
    \/ Reboot
NextReset == Step \/ MenuOp \/ PowerLoss \/ EnvChange
SpecReset == InitReset /\ [][NextReset]_vars /\ WF_vars(Step)

\* ------------------------------------------------------------ properties

\* the lines of a text: the pieces its newlines end, and what follows the
\* last newline when that is not empty
RECURSIVE SplitLines(_)
SplitLines(s) ==
    IF s = <<>> THEN <<>>
    ELSE LET n == StrCSpn(s, {NL})
         IN  <<SubSeq(s, 1, n)>> \o SplitLines(SubSeq(s, n + 2, Len(s)))

NonEmpty(ls) == SelectSeq(ls, LAMBDA l : l # <<>>)
FirstN(s, n) == SubSeq(s, 1, Min(Len(s), n))
Chars(s) == {s[i] : i \in 1..Len(s)}

\* a line without the "\r" characters at its end
RECURSIVE StripCR(_)
StripCR(l) ==
    IF l # <<>> /\ l[Len(l)] = CR THEN StripCR(SubSeq(l, 1, Len(l) - 1)) ELSE l

\* "recovery\n", then each argument and "\n"
FullRecord(args) == S_recovery \o <<NL>> \o Text(args)

\* the Commands the record can hold: at most MAX_ARGS - 1 arguments, none
\* empty or holding a newline, and a serialization that fits the recovery
\* field (the last newline may be cut)
Durable(args) ==
    /\ Len(args) <= MAX_ARGS - 1
    /\ \A i \in 1..Len(args) : args[i] # <<>> /\ NL \notin Chars(args[i])
    /\ Len(FullRecord(args)) <= RECOVERY_SIZE

\* the stored record asks for recovery and decodes to the Command args
Decodes(args) ==
    /\ bcb.command = S_boot_recovery
    /\ RecordArgv(bcb.recovery).match
    /\ Tail(RecordArgv(bcb.recovery).argv) = args

\* C1, as the code has it: from the record write of get_args to the first
\* finish_recovery call of the session, and in the session a power loss in
\* between starts, the record holds "boot-recovery" and decodes to the
\* session's Command, provided the Command is one the record can hold.
CrashResume ==
    /\ (pc \in PreFinish /\ sess.wrote /\ Durable(Tail(argv)))
           => Decodes(Tail(argv))
    /\ (pc = "get_args" /\ run.resume.valid /\ Durable(run.resume.cmd))
           => Decodes(run.resume.cmd)

\* C1 as stated: the same for every Command
CrashResumeAny ==
    /\ (pc \in PreFinish /\ sess.wrote) => Decodes(Tail(argv))
    /\ (pc = "get_args" /\ run.resume.valid) => Decodes(run.resume.cmd)

\* a session started by a power loss finds the record of a two-argument
\* Command that came from the command file
CrashResumeSeen ==
    /\ pc = "get_args" /\ boots = 2 /\ run.resume.valid
    /\ run.resume.cmd = <<S_update_package_pkg, S_send_intent_ok>>

\* the outcomes of get_args in a session that starts now without arguments
Again == GetArgs(<<S_prog>>, bcb, cacheOk /\ cmdfile.exists, cmdfile.data)

\* C2, as the code has it: get_args has returned a Command the record can
\* hold and written the record; get_args without invocation arguments on the
\* record just written returns the same arguments in the same order.
RoundTrip ==
    (pc = "parse" /\ sess.wrote /\ Durable(Tail(argv)))
        => \A o \in Again : ~o.fault /\ Tail(o.argv) = Tail(argv)

\* C2 as stated: the same for every Command
RoundTripAny ==
    (pc = "parse" /\ sess.wrote)
        => \A o \in Again : ~o.fault /\ Tail(o.argv) = Tail(argv)

\* a three-argument Command from the command file has been written back
RoundTripSeen ==
    /\ pc = "parse" /\ sess.wrote /\ sess.source = "file"
    /\ Tail(argv) = << <<"a">>, <<"b">>, <<"c">> >>

\* the record and the volumes after a completed factory reset
ResetDone == dataFmt /\ cacheFmt /\ bcb = ZeroBoot

\* the power was lost before get_args wrote the record, and the main system
\* has started with the reset not begun
NeverArmed == pc = "main" /\ ~run.armed

\* C3, as the code has it: in a run of the factory reset where the record
\* and the cache volume can be read and written, no session clears the
\* record before it has called the erase of DATA and of CACHE; and when the
\* formats succeed and no power loss comes before get_args has written the
\* record, DATA and CACHE get formatted and the record emptied, with the
\* session at the reboot request, or the main system started by a power
\* loss that came after the record was cleared.
ResetRestartable ==
    /\ [](~run.ioFault /\ sess.cleared => sess.triedData /\ sess.triedCache)
    /\ <>(run.ioFault \/ run.fmtFailed \/ NeverArmed
          \/ (pc \in {"reboot", "main"} /\ ResetDone))

\* C3 as stated (with working devices): a session reaches the reboot request
ResetReachesReboot ==
    <>(run.ioFault \/ run.fmtFailed \/ (pc = "reboot" /\ ResetDone))

\* the second session completes the reset a power loss interrupted after
\* DATA was formatted
ResetResumed ==
    /\ pc = "reboot" /\ boots = 2 /\ ResetDone
    /\ ~run.ioFault /\ ~run.fmtFailed
    /\ sess.source = "none" /\ sess.triedData /\ sess.triedCache

\* C4: invocation arguments beyond the placeholder are returned as they are,
\* whatever the record and the command file hold.
InvocationWins ==
    (pc \in {"parse", "crashed_get_args"} /\ Len(sess.input.argv) > 1)
        => pc = "parse" /\ argv = sess.input.argv

\* invocation arguments, a record with arguments and a command file at once
InvocationWinsSeen ==
    /\ pc = "parse" /\ sess.input.argv = <<S_prog, S_wipe_cache>>
    /\ RecordArgv(sess.input.boot.recovery).argv = <<S_recovery, S_wipe_data>>
    /\ sess.input.opened /\ sess.input.stream # <<>>
    /\ argv = <<S_prog, S_wipe_cache>>

\* the lines of the record get_args read, and those after the first
RecordLines == SplitLines(Terminated(sess.input.boot.recovery))
ArgLines == IF RecordLines = <<>> THEN <<>> ELSE Tail(RecordLines)

\* get_args ran without invocation arguments on a record whose first line
\* is "recovery"
RecordCase ==
    /\ pc \in {"parse", "crashed_get_args"}
    /\ Len(sess.input.argv) <= 1
    /\ RecordLines # <<>> /\ Head(RecordLines) = S_recovery

\* C5, as the code has it: without invocation arguments, a record whose
\* first line is "recovery" followed by at least one non-empty line makes
\* get_args return the first MAX_ARGS - 1 non-empty lines in order, and the
\* command file is not opened.
RecordBeforeFile ==
    (RecordCase /\ NonEmpty(ArgLines) # <<>>)
        => /\ pc = "parse"
           /\ Tail(argv) = FirstN(NonEmpty(ArgLines), MAX_ARGS - 1)
           /\ ~sess.fopened

\* C5 as stated: every line after the first is returned
RecordBeforeFileAny ==
    (RecordCase /\ ArgLines # <<>>)
        => pc = "parse" /\ Tail(argv) = ArgLines /\ ~sess.fopened

\* the record supplies the Command while a command file is there
RecordBeforeFileSeen ==
    /\ pc = "parse" /\ sess.input.argv = <<S_prog>>
    /\ sess.input.boot.recovery = Text(<<S_recovery, S_wipe_data>>)
    /\ sess.input.opened /\ sess.input.stream # <<>>
    /\ argv = <<S_recovery, S_wipe_data>>

\* the lines of the command file get_args opened
FileLines == SplitLines(sess.input.stream)

\* C6: without invocation arguments, with a record that is empty or holds
\* the "recovery" line only, an opened command file of at most MAX_ARGS - 1
\* lines shorter than MAX_ARG_LENGTH - 1 makes get_args return the
\* placeholder and the lines without their line ends.
FallbackChain ==
    ( /\ pc \in {"parse", "crashed_get_args"}
      /\ Len(sess.input.argv) <= 1
      /\ sess.input.boot.recovery \in {<<>>, S_recovery, Text(<<S_recovery>>)}
      /\ sess.input.opened
      /\ Len(FileLines) <= MAX_ARGS - 1
      /\ \A i \in 1..Len(FileLines) : Len(FileLines[i]) < MAX_ARG_LENGTH - 1 )
        => /\ pc = "parse"
           /\ argv = <<Head(sess.input.argv)>> \o
                     [i \in 1..Len(FileLines) |-> StripCR(FileLines[i])]

\* C7: get_args returns a Command on every input, and the placeholder alone
\* when no source yields an argument.
ResolveTotal ==
    /\ pc # "crashed_get_args"
    /\ ( /\ pc = "parse" /\ Len(sess.input.argv) <= 1
         /\ Len(RecordArgv(sess.input.boot.recovery).argv) <= 1
         /\ (~sess.input.opened \/ sess.input.stream = <<>>) )
           => Len(argv) = 1

\* C8, as the code has it: when the record write of get_args succeeds the
\* record holds "boot-recovery" and, cut to the RECOVERY_SIZE - 1 characters
\* the field can hold, "recovery\n" followed by each argument and "\n".
WriteBack ==
    (pc = "parse" /\ sess.wrote)
        => /\ bcb.command = S_boot_recovery
           /\ bcb.recovery = FirstN(FullRecord(Tail(argv)), RECOVERY_SIZE - 1)

\* C8 as stated (where the write succeeds): the whole serialization
WriteBackAny ==
    (pc = "parse" /\ sess.wrote)
        => /\ bcb.command = S_boot_recovery
           /\ bcb.recovery = FullRecord(Tail(argv))

\* a Command from the invocation arguments was cut in the record
WriteBackSeen ==
    /\ pc = "parse" /\ sess.wrote /\ sess.source = "argv"
    /\ Len(FullRecord(Tail(argv))) > RECOVERY_SIZE - 1
    /\ Len(bcb.recovery) = RECOVERY_SIZE - 1

\* no chunk of the temporary log is in the log file twice
NoDuplicate ==
    \A i, j \in 1..Len(logfile) : logfile[i] = logfile[j] => i = j

Returned == sess.finCalls > 0 /\ pc \in {"prompt_wait", "reboot"}

\* C11: when a finish_recovery call has returned, each of its four steps
\* has been carried out, whichever of the others failed; a step fails or
\* not by its own device alone (the intent and the log by the cache volume,
\* the record by the misc partition).
FinishIndependent ==
    Returned
        => /\ sess.fin.intent # "none" /\ sess.fin.log # "none"
           /\ sess.fin.bcb # "none" /\ sess.fin.unlink # "none"
           /\ (sess.fin.intent = "failed") => (sess.fin.log = "failed")
           /\ (sess.fin.log = "failed") => (sess.fin.unlink = "failed")
           /\ (sess.fin.bcb = "ok") = sess.finWrote
           /\ sess.finWrote => bcb = ZeroBoot
           /\ (sess.fin.intent = "ok") => intentfile = File(finIntent.s)

\* the intent and the log could not be written, the command file could not
\* be removed, and the record has been cleared all the same
FinishIndependentSeen ==
    /\ Returned /\ pc = "reboot"
    /\ sess.fin.intent = "failed" /\ sess.fin.log = "failed"
    /\ sess.fin.unlink = "failed"
    /\ sess.fin.bcb = "ok" /\ sess.wrote /\ bcb = ZeroBoot

\* C12, as the code has it: when finish_recovery has returned and its
\* removal step found the cache volume mounted, the command file does not
\* exist unless it existed and its unlink failed; when the file was absent
\* the step has not failed and has left the command file absent.
RemovesCommand ==
    (Returned /\ sess.fin.mounted)
        => /\ (sess.fin.unlink = "ok") => ~cmdfile.exists
           /\ (sess.fin.unlink = "failed") => sess.fin.existed
           /\ ~sess.fin.existed => sess.fin.unlink = "ok"

\* C12 as stated: with the volume mounted the command file is gone
RemovesCommandAlways == (Returned /\ sess.fin.mounted) => ~cmdfile.exists

\* a command file that existed has been removed by a call that returned
RemovesCommandSeen ==
    /\ Returned /\ sess.fin.mounted /\ sess.fin.existed
    /\ sess.fin.unlink = "ok" /\ ~cmdfile.exists /\ ~cacheFmt

\* C10: when the record write of a finish_recovery call has succeeded, the
\* command, status and recovery fields of the record are empty.
FinishClears ==
    sess.finWrote
        => bcb.command = <<>> /\ bcb.status = <<>> /\ bcb.recovery = <<>>

\* finish_recovery with an intent has cleared the record get_args wrote
FinishClearsSeen ==
    /\ sess.finWrote /\ sess.wrote /\ ~finIntent.null
    /\ pc \in {"fin_unlink", "reboot"}

\* the positions of main after the execution
PastExec ==
    {"executed", "fin_intent", "fin_log", "fin_bcb", "fin_unlink",
     "prompt_wait", "reboot"}

\* C13: with a package in the options, install_package has been called on
\* it when the execution is over, erase_root has not been called whatever
\* the wipe flags are, and the status is success exactly when
\* install_package reported success.
InstallOnly ==
    (pc \in PastExec /\ ~opts.update_package.null)
        => /\ ~sess.installed.null
           /\ sess.installed.s = opts.update_package.s
           /\ ~sess.triedData /\ ~sess.triedCache
           /\ ~dataFmt /\ ~cacheFmt
           /\ (status = "SUCCESS") = sess.installed.ok

\* a Command with a package and --wipe_data has been executed
InstallOnlySeen ==
    /\ pc = "executed" /\ opts.wipe_data /\ opts.wipe_cache
    /\ opts.update_package = StrPtr(S_pkg)
    /\ sess.installed.s = S_pkg /\ sess.installed.ok /\ status = "SUCCESS"

\* C14: in the wipe branch erase_root has been called for every flag that
\* is set when the execution is over, whatever the other call returned, and
\* the status is an error exactly when a call failed; a CACHE format that
\* succeeds after a failed DATA format has formatted CACHE.
EraseIndependent ==
    (pc \in PastExec /\ Branch(opts) = "wipe")
        => /\ sess.triedData = opts.wipe_data
           /\ sess.triedCache = opts.wipe_cache
           /\ (status = "ERROR") = (sess.failedData \/ sess.failedCache)
           /\ (sess.triedCache /\ ~sess.failedCache) => cacheFmt

\* DATA failed, CACHE was formatted, the status is an error
EraseIndependentSeen ==
    /\ pc = "executed" /\ sess.failedData /\ ~dataFmt
    /\ sess.triedCache /\ ~sess.failedCache /\ cacheFmt
    /\ status = "ERROR"

\* C15: when the execution of the Command "--wipe_data" is over, erase_root
\* has been called on DATA and on CACHE, and each is formatted unless its
\* format failed; for the Command "--wipe_cache" it has been called on CACHE
\* and not on DATA, and DATA is not formatted.
WipeDataBoth ==
    /\ (pc \in PastExec /\ Tail(argv) = <<S_wipe_data>>)
           => /\ sess.triedData /\ sess.triedCache
              /\ ~sess.failedData => dataFmt
              /\ ~sess.failedCache => cacheFmt
    /\ (pc \in PastExec /\ Tail(argv) = <<S_wipe_cache>>)
           => /\ sess.triedCache /\ ~sess.triedData /\ ~dataFmt
              /\ ~sess.failedCache => cacheFmt

\* "--wipe_data" alone has formatted DATA and CACHE
WipeDataBothSeen ==
    /\ pc = "executed" /\ Tail(argv) = <<S_wipe_data>>
    /\ dataFmt /\ cacheFmt /\ status = "SUCCESS"

\* C16: a session that found no invocation arguments, an empty record and no
\* command file has no package and no wipe flag in its options, calls
\* neither install_package nor erase_root, ends its execution with an error,
\* and goes on from there into prompt_and_wait only.
NoOpRouting ==
    (sess.blank /\ pc \in {"exec"} \cup PastExec)
        => /\ argv = <<S_prog>>
           /\ opts.update_package.null /\ ~opts.wipe_data /\ ~opts.wipe_cache
           /\ sess.installed.null /\ ~sess.triedData /\ ~sess.triedCache
           /\ pc \in PastExec => status = "ERROR"
           /\ pc \in PastExec \ {"executed"} => sess.prompted

\* such a session waits at the prompt
NoOpRoutingSeen ==
    /\ sess.blank /\ pc = "prompt_wait" /\ status = "ERROR" /\ boots = 1
    /\ sess.prompted /\ sess.finCalls = 1

\* C17: past the execution, main has called prompt_and_wait exactly when the
\* status is an error; with success it is in finish_recovery(send_intent) or
\* at the reboot, never at the prompt.
PromptIffError ==
    /\ pc \in PastExec \ {"executed"} => (sess.prompted = (status = "ERROR"))
    /\ pc = "prompt_wait" => status = "ERROR"
    /\ (pc \in PastExec /\ status = "SUCCESS")
           => /\ ~sess.prompted /\ menuOps = 0
              /\ pc # "executed" => finRet = "reboot"

\* a successful session at the reboot, its only finish_recovery call made
PromptIffErrorSeen ==
    /\ pc = "reboot" /\ status = "SUCCESS" /\ ~sess.prompted
    /\ sess.finCalls = 1 /\ sess.triedCache

\* C18, as the code has it: while the prompt waits for a key, finish_recovery
\* has been called in this session and has attempted the clear of the
\* record; once one of its writes has succeeded the record is empty and a
\* power cycle starts the main system.  When the write failed the record
\* still asks for recovery.
PromptSafe ==
    pc = "prompt_wait"
        => /\ sess.finCalls >= 1 /\ sess.fin.bcb # "none"
           /\ sess.cleared => (bcb = ZeroBoot /\ ~BootsRecovery)

\* C18 as stated: the record has been cleared whenever the prompt waits
PromptSafeAlways == pc = "prompt_wait" => (sess.cleared /\ ~BootsRecovery)

\* the prompt waits after a failed DATA format, the record get_args wrote
\* cleared
PromptSafeSeen ==
    /\ pc = "prompt_wait" /\ sess.failedData /\ sess.wrote
    /\ sess.cleared /\ bcb = ZeroBoot /\ cmdfile = NoFile

\* the outcomes of get_args on what it was called on, with an empty record
OnEmptyRecord ==
    GetArgs(sess.input.argv, ZeroBoot, sess.input.opened, sess.input.stream)

\* C19: without invocation arguments, a record that could not be read or
\* whose recovery field is all zero or all 0xFF supplies no argument, no
\* "Bad boot message" is logged, and get_args ends as it can end on an empty
\* record: the same Command, from the command file when it can be opened.
AbsentRecord ==
    ( /\ pc \in {"parse", "crashed_get_args"}
      /\ Len(sess.input.argv) <= 1
      /\ sess.input.boot.recovery \in {<<>>, Fill(XFF, RECOVERY_SIZE)} )
        => /\ ~sess.badmsg
           /\ sess.source # "bcb"
           /\ sess.fopened = sess.input.opened
           /\ \E o \in OnEmptyRecord :
                 /\ o.fault = (pc = "crashed_get_args")
                 /\ ~o.fault => (o.argv = argv /\ o.source = sess.source)

\* a record of erased flash, and the Command taken from the command file
AbsentRecordSeen ==
    /\ pc = "parse" /\ sess.input.argv = <<S_prog>>
    /\ sess.input.boot.recovery = Fill(XFF, RECOVERY_SIZE)
    /\ sess.source = "file" /\ argv = <<S_prog, S_wipe_data>>

\* the name of a long option element: what follows "--", up to "="
OptName(a) == SubSeq(a, 3, 2 + StrCSpn(SubSeq(a, 3, Len(a)), {"="}))

\* an element that is a long option main does not know: no entry of OPTIONS
\* has its name, or its name as a prefix
Unrecognised(a) ==
    /\ IsPrefix(DashDash, a) /\ a # DashDash
    /\ \A i \in DOMAIN OPTIONS : ~IsPrefix(OptName(a), OPTIONS[i].name)

\* the Command without the options main does not know
Recognised(args) == SelectSeq(args, LAMBDA a : ~Unrecognised(a))

\* C20: the getopt loop ends on every Command, and the options it leaves
\* are those it leaves on the Command without the unrecognised options.
SkipsUnknown ==
    /\ pc # "crashed_getopt"
    /\ pc = "exec"
           => [fault |-> FALSE, opts |-> opts] \in ParseOptions(Recognised(argv))

\* the lines of the command file as arguments: without their line end, cut
\* to the MAX_ARG_LENGTH - 1 characters the buffer holds
CutLines ==
    [i \in 1..Len(FileLines) |->
        FirstN(StripCR(FileLines[i]), MAX_ARG_LENGTH - 1)]

\* C21: get_args on an opened command file without blank lines returns a
\* Command with one argument for each of the first MAX_ARGS - 1 lines, a
\* line longer than the buffer cut to it and the rest of the line dropped.
TruncatesLine ==
    ( /\ pc \in {"parse", "crashed_get_args"} /\ sess.fopened
      /\ \A i \in 1..Len(FileLines) : StripCR(FileLines[i]) # <<>> )
        => /\ pc = "parse"
           /\ Tail(argv) = FirstN(CutLines, MAX_ARGS - 1)

\* C22: at the reboot request finish_recovery has been called in this
\* session and has returned, its last call being the one of main; after an
\* error that call came after the one of prompt_and_wait.
FinishBeforeReboot ==
    pc = "reboot"
        => /\ sess.finCalls >= 1 /\ finRet = "reboot"
           /\ sess.fin.intent # "none" /\ sess.fin.log # "none"
           /\ sess.fin.bcb # "none" /\ sess.fin.unlink # "none"
           /\ status = "ERROR" => (sess.prompted /\ sess.finCalls >= 2)

\* the reboot request after an error, the prompt and two calls
FinishBeforeRebootSeen ==
    /\ pc = "reboot" /\ status = "ERROR" /\ sess.prompted
    /\ sess.finCalls = 2 /\ sess.fin.bcb = "ok" /\ menuOps = 0

DataBeforeCache ==
    /\ (Branch(opts) = "wipe" /\ opts.wipe_data /\ sess.triedCache)
           => sess.triedData
    /\ pc = "wipe_cache" => (sess.triedData /\ ~sess.triedCache)

\* DATA has been formatted and CACHE is next
DataBeforeCacheSeen ==
    /\ pc = "wipe_cache" /\ opts.wipe_data /\ opts.wipe_cache
    /\ sess.triedData /\ ~sess.triedCache /\ dataFmt /\ ~cacheFmt

\* finish_recovery's log copy when the log opens and a write to it fails
\* (a full volume, an I/O error): fputs stores only the first k bytes, the
\* loop still reads the temporary log to its end, tmplog_offset = ftell(tmplog)
\* is assigned all the same, and check_and_fclose logs the error. Next leaves
\* this outcome out: there a write to an opened log succeeds.
FinLogLost ==
    /\ pc = "fin_log" /\ cacheOk /\ tmplog > tmplog_offset
    /\ \E k \in 0..(tmplog - tmplog_offset - 1) :
        logfile' = logfile \o FirstN(LogCopy(boots, tmplog_offset, tmplog), k)
    /\ tmplog_offset' = NextOffset(tmplog_offset, tmplog)
    /\ tmplog' = tmplog + 1
    /\ pc' = "fin_bcb"
    /\ sess' = [sess EXCEPT !.fin.log = "lost"]
    /\ UNCHANGED <<bcb, cmdfile, intentfile, dataFmt, cacheFmt, env, argv,
                   opts, status, finIntent, finRet, boots, menuOps, run>>

\* the sessions of SpecExec with failing log writes
NextLog == Next \/ FinLogLost
SpecLog == InitExec /\ [][NextLog]_vars

\* C25: every byte of this process's temporary log below tmplog_offset is in
\* the log file, so the offset has advanced only over bytes that were
\* appended and no byte is skipped.
LogOffsetSound ==
    /\ tmplog_offset <= tmplog
    /\ \A i \in 1..tmplog_offset :
          \E j \in 1..Len(logfile) : logfile[j] = <<boots, i>>

\* the positions inside a finish_recovery call
InFinish == {"fin_intent", "fin_log", "fin_bcb", "fin_unlink"}

\* C26: at the reboot request of a session whose Command has
\* --send_intent=X, with the cache volume usable, the intent file holds
\* exactly X, after a success and after an error; and no step of a
\* finish_recovery(NULL) call changes the intent file.
IntentDelivered ==
    /\ []( (pc = "reboot" /\ ~opts.send_intent.null /\ cacheOk)
              => intentfile = File(opts.send_intent.s) )
    /\ [][ (pc \in InFinish /\ finIntent.null) => intentfile' = intentfile ]_vars

\* after an error and the prompt, the old content replaced by the intent
IntentDeliveredSeen ==
    /\ pc = "reboot" /\ status = "ERROR" /\ sess.prompted /\ cacheOk
    /\ ~opts.send_intent.null /\ intentfile = File(S_ok) /\ ~cacheFmt

\* the pieces the command file is read in: each ends behind a line end or
\* when the buffer of MAX_ARG_LENGTH is full
RECURSIVE Pieces(_)
Pieces(s) ==
    IF s = <<>> THEN <<>>
    ELSE LET k == Min(Min(StrCSpn(s, {NL}) + 1, Len(s)), MAX_ARG_LENGTH - 1)
         IN  <<SubSeq(s, 1, k)>> \o Pieces(SubSeq(s, k + 1, Len(s)))

\* the argument a piece gives: its first run of characters other than line
\* ends
PieceArg(p) ==
    LET t == StrTok(p, {CR, NL}) IN IF t.null THEN <<>> ELSE t.tok

\* get_args has returned a Command taken from the record or the command file
Taken == pc = "parse" /\ sess.source \in {"bcb", "file"}

FileCommand(stream) ==
    FirstN([i \in 1..Len(Pieces(stream)) |-> PieceArg(Pieces(stream)[i])],
           MAX_ARGS - 1)

\* get_args has returned a Command from the command file and its write of
\* the record has failed
WriteFailed == pc = "parse" /\ ~sess.wrote /\ sess.source = "file"

\* what get_args returns when recovery is started again now, for either
\* outcome of reading the record
Rederived ==
    UNION { GetArgs(<<S_prog>>, GetBootloaderMessage(bcb, readOk),
                    cacheOk /\ cmdfile.exists, cmdfile.data) :
            readOk \in BOOLEAN }

RecordRead ==
    /\ pc \in {"parse", "crashed_get_args"}
    /\ Len(sess.input.argv) <= 1
    /\ Terminated(sess.input.boot.recovery) # <<>>

\* the effects the claim gives for a malformed record: no argument from it,
\* the command file tried, the arguments those of the file, and the record,
\* when written, their serialization cut to the field
FallsBack ==
    /\ sess.source # "bcb"
    /\ sess.fopened = sess.input.opened
    /\ pc = "parse"
           => /\ Tail(argv) = IF sess.input.opened
                              THEN FileCommand(sess.input.stream) ELSE <<>>
              /\ sess.wrote
                     => /\ bcb.command = S_boot_recovery
                        /\ bcb.recovery =
                               FirstN(FullRecord(Tail(argv)), RECOVERY_SIZE - 1)

\* C29, as the code has it: without invocation arguments, a record whose
\* first non-empty line is not exactly "recovery" gives no argument; get_args
\* tries the command file and, where it returns and its write succeeds, the
\* record holds the serialization of the Command.
MalformedRecord ==
    ( /\ RecordRead
      /\ \/ NonEmpty(RecordLines) = <<>>
         \/ Head(NonEmpty(RecordLines)) # S_recovery )
        => FallsBack

\* C29 as stated: a record whose first line is not exactly "recovery"
MalformedFirstLine ==
    (RecordRead /\ Head(RecordLines) # S_recovery) => FallsBack

\* a record of other content replaced by the command of the file
MalformedRecordSeen ==
    /\ RecordRead /\ pc = "parse" /\ sess.wrote /\ sess.source = "file"
    /\ Head(RecordLines) = <<"j", "u", "n", "k">>
    /\ Tail(argv) = <<S_wipe_data>>
    /\ bcb.recovery = Text(<<S_recovery, S_wipe_data>>)

\* sessions that no power loss cuts short: the invocations of SpecExec, with
\* or without a command file whose first line is blank; every step of the
\* process is taken in the end, the operator's choice to leave the prompt
\* included
InitEnd ==
    InitWith(ArgvExec, {ZeroBoot},
             {NoFile, File(<<NL>> \o Text(<<S_wipe_cache>>))}, {NoFile},
             {TRUE})
StepEnd == Step \/ Install
NextEnd == StepEnd \/ MenuOp \/ EnvChange
SpecEnd == InitEnd /\ [][NextEnd]_vars /\ WF_vars(StepEnd)

\* C30: every session that has started reaches the reboot request.
EndsRebooting == [](pc = "get_args" => <>(pc = "reboot"))

\* C31, as the code has it: once a finish_recovery call of the session has
\* written the empty record, a recovery started with no invocation arguments,
\* at once or after a power loss, takes nothing from the record; it resolves
\* to the empty Command when the command file is gone, and reads the command
\* file again while it is still there.
NoReexecution ==
    sess.cleared
        => \A o \in Rederived :
              /\ o.source \in {"file", "none"}
              /\ ~cmdfile.exists
                     => (~o.fault /\ NoArgs(o.argv) /\ o.source = "none")

\* C31 as stated: it resolves to the empty Command at every later point
NoReexecutionAlways ==
    sess.cleared => \A o \in Rederived : ~o.fault /\ NoArgs(o.argv)

\* the main system started after a session that wiped DATA, cleared the
\* record and removed its command file
NoReexecutionSeen ==
    /\ pc = "main" /\ sess.cleared /\ sess.triedData
    /\ sess.fin.existed /\ sess.fin.unlink = "ok" /\ ~cmdfile.exists
    /\ \A o \in Rederived : ~o.fault /\ NoArgs(o.argv)

\* ------------------------------------------------------- choose_wipe_type

\* the keys ui_wait_key returns, as far as choose_wipe_type tells them apart
Keys == {"BACK", "DOWN", "UP", "CENTER", "HOME", "OTHER"}

\* WTYPE_BACK, WTYPE_DATA_CACHE, WTYPE_CACHE, WTYPE_DELVIK_CACHE
WTYPE_BACK == 0
WTYPE_DATA_CACHE == 1
WTYPE_CACHE == 2
WTYPE_DELVIK_CACHE == 3

\* keys read by one visit of the menu before it is left
MaxKeys == 4

\* ui_menu_select(sel) keeps the selection inside the items
MenuSelect(sel) ==
    IF sel < WTYPE_BACK THEN WTYPE_BACK
    ELSE IF sel > WTYPE_DELVIK_CACHE THEN WTYPE_DELVIK_CACHE ELSE sel

\* prompt_and_wait on ITEM_WIPE_DATA: choose_wipe_type() starts the menu and
\* calls finish_recovery(NULL)
ChooseWipeType ==
    /\ pc = "prompt_wait" /\ menuOps < MaxMenuOps
    /\ menuOps' = menuOps + 1
    /\ CallFinish(NullStr, "wipe_start", FALSE)
    /\ UNCHANGED <<disk, env, argv, opts, status, tmplog, tmplog_offset,
                   boots, run>>

\* ui_reset_progress(), with the locals as they were initialised
WipeStart ==
    /\ pc = "wipe_start"
    /\ pc' = "wipe_menu"
    /\ sess' = [sess EXCEPT !.menu = NoMenu]
    /\ UNCHANGED <<disk, env, argv, opts, status, tmplog, tmplog_offset,
                   finIntent, finRet, boots, menuOps, run>>

\* one turn of the for (;;) loop: a key, ui_text_visible(), and the tests on
\* chosen_item up to the confirmation prompt
WipeKey ==
    /\ pc = "wipe_menu" /\ sess.menu.keys < MaxKeys
    /\ \E key \in Keys, visible \in BOOLEAN :
       LET sel == CASE key = "DOWN" /\ visible
                         -> MenuSelect(sess.menu.selected + 1)
                    [] key = "UP" /\ visible
                         -> MenuSelect(sess.menu.selected - 1)
                    [] OTHER -> sess.menu.selected
           chosen == IF key = "CENTER" /\ visible THEN sess.menu.selected
                     ELSE sess.menu.chosen
       IN  /\ sess' = [sess EXCEPT !.menu.selected = sel,
                                   !.menu.chosen = chosen,
                                   !.menu.keys = @ + 1]
           /\ pc' = IF key = "BACK" THEN "wipe_done"
                    ELSE IF chosen < 0 THEN "wipe_menu"
                    ELSE IF chosen = WTYPE_BACK THEN "wipe_done"
                    ELSE "wipe_confirm"
           /\ tmplog' = IF key # "BACK" /\ chosen > WTYPE_BACK
                        THEN tmplog + 1 ELSE tmplog
    /\ UNCHANGED <<disk, env, argv, opts, status, tmplog_offset, finIntent,
                   finRet, boots, menuOps, run>>

\* a confirmation that takes any key
WipeConfirmAnyKey ==
    /\ pc = "wipe_confirm"
    /\ \E key \in Keys :
        /\ sess' = [sess EXCEPT !.menu.confirm = key]
        /\ pc' = CASE sess.menu.chosen = WTYPE_DATA_CACHE -> "menu_erase_data"
                   [] sess.menu.chosen = WTYPE_CACHE -> "menu_erase_cache"
                   [] OTHER -> "menu_dalvik"
    /\ tmplog' = tmplog + 1
    /\ UNCHANGED <<disk, env, argv, opts, status, tmplog_offset, finIntent,
                   finRet, boots, menuOps, run>>

\* int confirm_wipe = ui_wait_key(); if (confirm_wipe == KEY_DREAM_HOME)
\* switch (chosen_item), else "Data wipe aborted."
WipeConfirm ==
    /\ pc = "wipe_confirm"
    /\ \E key \in Keys :
        /\ sess' = [sess EXCEPT !.menu.confirm = key]
        /\ pc' = CASE key # "HOME" -> "wipe_done"
                   [] sess.menu.chosen = WTYPE_DATA_CACHE -> "menu_erase_data"
                   [] sess.menu.chosen = WTYPE_CACHE -> "menu_erase_cache"
                   [] OTHER -> "menu_dalvik"
    /\ tmplog' = tmplog + 1
    /\ UNCHANGED <<disk, env, argv, opts, status, tmplog_offset, finIntent,
                   finRet, boots, menuOps, run>>

\* case WTYPE_DATA_CACHE: erase_root("DATA:"); its result is dropped and the
\* case falls through
MenuEraseData ==
    /\ pc = "menu_erase_data"
    /\ \E ok \in BOOLEAN :
        /\ dataFmt' = (dataFmt \/ ok)
        /\ run' = [run EXCEPT !.fmtFailed = @ \/ ~ok]
    /\ sess' = [sess EXCEPT !.menu.fmt = Append(@, "DATA")]
    /\ pc' = "menu_erase_cache"
    /\ tmplog' = tmplog + 1
    /\ UNCHANGED <<bcb, cmdfile, intentfile, logfile, cacheFmt, env, argv,
                   opts, status, tmplog_offset, finIntent, finRet, boots,
                   menuOps>>

\* case WTYPE_CACHE: erase_root("CACHE:"); ui_print("Data wipe complete.\n")
MenuEraseCache ==
    /\ pc = "menu_erase_cache"
    /\ \E ok \in BOOLEAN :
        /\ cacheFmt' = (cacheFmt \/ ok)
        /\ cmdfile' = IF ok THEN NoFile ELSE cmdfile
        /\ intentfile' = IF ok THEN NoFile ELSE intentfile
        /\ logfile' = IF ok THEN <<>> ELSE logfile
        /\ run' = [run EXCEPT !.fmtFailed = @ \/ ~ok]
    /\ sess' = [sess EXCEPT !.menu.fmt = Append(@, "CACHE")]
    /\ pc' = "wipe_done"
    /\ tmplog' = tmplog + 1
    /\ UNCHANGED <<bcb, dataFmt, env, argv, opts, status, tmplog_offset,
                   finIntent, finRet, boots, menuOps>>

\* case WTYPE_DELVIK_CACHE: rm -r /data/dalvik-cache in a child, no volume
\* formatted
MenuDalvik ==
    /\ pc = "menu_dalvik"
    /\ pc' = "wipe_done"
    /\ tmplog' = tmplog + 1
    /\ UNCHANGED <<disk, env, argv, opts, status, tmplog_offset, finIntent,
                   finRet, boots, menuOps, sess, run>>

\* choose_wipe_type returns; prompt_and_wait returns to main when the text
\* is hidden, else shows its menu again and calls finish_recovery(NULL)
WipeLeave ==
    /\ pc = "wipe_done"
    /\ \E visible \in BOOLEAN :
        IF visible THEN CallFinish(NullStr, "prompt_wait", FALSE)
        ELSE CallFinish(opts.send_intent, "reboot", FALSE)
    /\ UNCHANGED <<disk, env, argv, opts, status, tmplog, tmplog_offset,
                   boots, menuOps, run>>

\* sessions without a command, which wait at the prompt, and the wipe menu
\* opened from it
InitWipe == InitWith({<<S_prog>>}, {ZeroBoot}, {NoFile}, {NoFile}, {TRUE})
NextWipe ==
    \/ GetArgsStep \/ ParseStep \/ NoCommand \/ EnterPrompt \/ ExitFinish
    \/ FinIntentStep \/ FinLogStep \/ FinBcbStep \/ FinUnlinkStep \/ Reboot
    \/ ChooseWipeType \/ WipeStart \/ WipeKey \/ WipeConfirm
    \/ MenuEraseData \/ MenuEraseCache \/ MenuDalvik \/ WipeLeave
SpecWipe == InitWipe /\ [][NextWipe]_vars

\* what a visit of the wipe menu formats, by the item chosen
WipeOf(chosen) ==
    CASE chosen = WTYPE_DATA_CACHE -> <<"DATA", "CACHE">>
      [] chosen = WTYPE_CACHE -> <<"CACHE">>
      [] OTHER -> <<>>

\* C32: in the wipe menu no volume is formatted unless the key at the
\* confirmation prompt was HOME; when the menu is left, a confirmed
\* "Wipe data/cache" has formatted DATA then CACHE, a confirmed "Wipe cache"
\* CACHE only, and anything else, "Back" included, nothing.
WipeNeedsConfirm ==
    /\ []( /\ pc \in {"menu_erase_data", "menu_erase_cache", "menu_dalvik"}
                 => sess.menu.confirm = "HOME"
           /\ sess.menu.fmt # <<>> => sess.menu.confirm = "HOME"
           /\ pc = "wipe_done"
                 => sess.menu.fmt = IF sess.menu.confirm = "HOME"
                                    THEN WipeOf(sess.menu.chosen) ELSE <<>> )
    /\ [][ (dataFmt' # dataFmt \/ cacheFmt' # cacheFmt)
               => sess.menu.confirm = "HOME" ]_vars

\* "Wipe data/cache" chosen and confirmed, both volumes formatted
WipeNeedsConfirmSeen ==
    /\ pc = "wipe_done" /\ sess.menu.chosen = WTYPE_DATA_CACHE
    /\ sess.menu.confirm = "HOME" /\ sess.menu.fmt = <<"DATA", "CACHE">>
    /\ dataFmt /\ cacheFmt

\* C33: get_args leaves the command file, the other files and the volumes as
\* they are; of the persistent state it changes the record only, and the
\* record it has written holds the status field as get_args read it.
ResolverFrame ==
    /\ []( (pc = "parse" /\ sess.wrote)
              => bcb.status = sess.input.boot.status )
    /\ [][ (pc = "get_args" /\ pc' \in {"parse", "crashed_get_args"})
               => /\ cmdfile' = cmdfile /\ intentfile' = intentfile
                  /\ logfile' = logfile
                  /\ dataFmt' = dataFmt /\ cacheFmt' = cacheFmt
                  /\ (bcb' # bcb => sess'.wrote) ]_vars

\* a Command read from the command file, the record rewritten with its
\* status kept and the file as it was
ResolverFrameSeen ==
    /\ pc = "parse" /\ sess.wrote /\ sess.source = "file"
    /\ bcb.status = S_ok /\ bcb.recovery # sess.input.boot.recovery
    /\ cmdfile.exists /\ cmdfile.data = sess.input.stream

====
